---- MODULE Spec2Model ----
(***************************************************************************)
(* A model of tools/pdf2txt.py: create_file (format resolution, sink and   *)
(* renderer lifecycle, per-document conversion) and create_chapters (the   *)
(* line scan that fans the flat text out into per-chapter files).          *)
(*                                                                         *)
(* Python strings are modelled as sequences of one-character strings, so   *)
(* that str.split, str.lower, str.endswith, str.replace and readline are   *)
(* computed character by character, as the interpreter does.               *)
(***************************************************************************)
EXTENDS Naturals, Integers, Sequences, FiniteSets, TLC

(***************************************************************************)
(* Bounds of the model.                                                    *)
(***************************************************************************)
\* total number of interpreter.process_page calls in one behaviour
MaxPages == 3

(***************************************************************************)
(* Python's None: no sequence of one-character strings equals it.         *)
(***************************************************************************)
None == <<"None">>

(***************************************************************************)
(* String primitives.                                                      *)
(***************************************************************************)
\* s[i:] (1-based i)
Drop(s, i) == SubSeq(s, i, Len(s))

\* s[i:].startswith(p)
StartsAt(s, i, p) ==
    /\ i + Len(p) - 1 <= Len(s)
    /\ SubSeq(s, i, i + Len(p) - 1) = p

\* str.endswith
EndsWith(s, suf) ==
    /\ Len(suf) <= Len(s)
    /\ SubSeq(s, Len(s) - Len(suf) + 1, Len(s)) = suf

\* str.lower on one character (the letters the model's inputs use)
LowerChar(c) ==
    CASE c = "C" -> "c"
      [] c = "H" -> "h"
      [] c = "P" -> "p"
      [] c = "X" -> "x"
      [] OTHER -> c

\* str.lower
Lower(s) == [i \in 1..Len(s) |-> LowerChar(s[i])]

\* str.split(sep) for a one-character sep: every sep cuts, empty pieces kept
RECURSIVE SplitFrom(_, _, _, _, _)
SplitFrom(s, sep, i, cur, acc) ==
    IF i > Len(s) THEN Append(acc, cur)
    ELSE IF s[i] = sep THEN SplitFrom(s, sep, i + 1, <<>>, Append(acc, cur))
    ELSE SplitFrom(s, sep, i + 1, Append(cur, s[i]), acc)

Split(s, sep) == SplitFrom(s, sep, 1, <<>>, <<>>)

\* str.replace(old, new): every non-overlapping occurrence, left to right
RECURSIVE ReplaceFrom(_, _, _, _)
ReplaceFrom(s, old, new, i) ==
    IF i > Len(s) THEN <<>>
    ELSE IF StartsAt(s, i, old)
         THEN new \o ReplaceFrom(s, old, new, i + Len(old))
         ELSE <<s[i]>> \o ReplaceFrom(s, old, new, i + 1)

Replace(s, old, new) == ReplaceFrom(s, old, new, 1)

\* os.path.join(a, b) for two components
PathJoin(a, b) ==
    IF Len(b) > 0 /\ b[1] = "/" THEN b
    ELSE IF Len(a) = 0 \/ a[Len(a)] = "/" THEN a \o b
    ELSE a \o <<"/">> \o b

\* io.TextIOWrapper.readline on content s with pos characters already read:
\* up to and including the next newline, or the rest of the file (the texts
\* of the model hold no carriage return, which text mode would translate)
RECURSIVE LineEnd(_, _)
LineEnd(s, i) ==
    IF i > Len(s) THEN Len(s)
    ELSE IF s[i] = "\n" THEN i
    ELSE LineEnd(s, i + 1)

ReadLine(s, pos) == SubSeq(s, pos + 1, LineEnd(s, pos + 1))

(***************************************************************************)
(* String literals of the source, and the inputs the model draws from.     *)
(***************************************************************************)
DotPdf      == <<".", "p", "d", "f">>
UnderChaps  == <<"_", "c", "h", "a", "p", "t", "e", "r", "s">>
DotTxt      == <<".", "t", "x", "t">>
DotHtm      == <<".", "h", "t", "m">>
DotHtml     == <<".", "h", "t", "m", "l">>
DotXml      == <<".", "x", "m", "l">>
DotTag      == <<".", "t", "a", "g">>
Preface     == <<"p", "r", "e", "f", "a", "c", "e">>
ChaptersOut == <<"c", "h", "a", "p", "t", "e", "r", "s">>

\* the renderers create_file can construct
Text == <<"t", "e", "x", "t">>
Html == <<"h", "t", "m", "l">>
Xml  == <<"x", "m", "l">>
Tag  == <<"t", "a", "g">>
Formats == {Text, Html, Xml, Tag}

\* the value True
True == <<"True">>

\* input documents: a.pdf and d/b.pdf
DocA == <<"a">> \o DotPdf
DocB == <<"d", "/", "b">> \o DotPdf

\* argument lists of one invocation (argparse nargs='+' or a direct call)
InputChoices == {<<DocA>>, <<DocA, DocB>>, <<>>}

\* chapter keywords
KeywordChoices == {<<"C", "H">>, <<"p", "r", "e">>}

\* (outtype, outfile) as main passes them in chapterized mode, and the
\* direct call create_chapters(..., outfile=None)
SinkChoices == {<<None, ChaptersOut>>, <<None, None>>}

\* what one process_page call can emit into the sink
PageTexts ==
    { <<"C", "h", " ", "1", " ", "\n">>,
      <<"c", "h", " ", "2", " ", "\n">>,
      <<"C", "h", " ", "1", "\n">>,
      <<"C", "h", " ", "1", " ", "2", " ", "3", "\n">>,
      <<"p", "r", "e", " ", "f", "a", "c", "e", " ", "\n">>,
      <<"\n">>,
      <<"y">> }

(***************************************************************************)
(* State.                                                                  *)
(***************************************************************************)
VARIABLES
    run,                \* "first" invocation, or invoked "again"
    pages,              \* process_page calls so far
    input_files,        \* argument
    chapter_definition, \* argument
    outtype,            \* argument, rebound by the format resolution
    requested,          \* the outtype argument as the caller passed it
    outfile,            \* argument
    fsFiles,            \* the filesystem's regular files: path -> content
    fsDirs,             \* the filesystem's directories
    stdout,             \* what has been written to sys.stdout, in order
    stdoutClosed,       \* sys.stdout has been closed
    pc,                 \* position in the code
    failedAt,           \* the position at which an exception was raised
    outfp,              \* create_file: None, "stdout" or "file"
    sinkOpen,           \* create_file: the file sink is open for writing
    device,             \* create_file: "unbound", "open" or "closed"
    deviceCloses,       \* create_file: number of device.close() calls
    fi,                 \* create_file: index of the current input document
    docOpen,            \* create_file: the current document is open
    flat,               \* the text create_file left in the sink
    fname,              \* create_chapters: loop variable after the loop
    input_file_path,    \* create_chapters
    fpOpen,             \* create_chapters: fp is open
    fpos,               \* create_chapters: characters fp has consumed
    chapters_name,      \* create_chapters
    file,               \* create_chapters: [path, closed]
    cur_line,           \* create_chapters
    openw,              \* chapter files open for writing, in open order
    opened,             \* chapter paths opened by this run, in open order
    markers,            \* boundary markers detected by this run
    result              \* None, or what the invocation returned

args   == <<input_files, chapter_definition, outtype, requested, outfile>>
fs     == <<fsFiles, fsDirs>>
out    == <<stdout, stdoutClosed>>
cfvars == <<outfp, sinkOpen, device, deviceCloses, fi, docOpen, flat>>
ccvars == <<fname, input_file_path, fpOpen, fpos, chapters_name, file,
            cur_line, openw, opened, markers>>
vars   == <<run, pages, args, fs, out, pc, failedAt, cfvars, ccvars, result>>

\* f with key k bound to v
Put(f, k, v) == [x \in DOMAIN f \cup {k} |-> IF x = k THEN v ELSE f[x]]

\* f without key k
Del(f, k) == [x \in DOMAIN f \ {k} |-> f[x]]

\* `file` before line 164 binds it
NoFile == [path |-> None, closed |-> TRUE]

\* the locals of a fresh invocation
FreshLocals ==
    /\ pc = "cf_resolve"
    /\ failedAt = "none"
    /\ outfp = None
    /\ sinkOpen = FALSE
    /\ device = "unbound"
    /\ deviceCloses = 0
    /\ fi = 0
    /\ docOpen = FALSE
    /\ flat = None
    /\ fname = None
    /\ input_file_path = None
    /\ fpOpen = FALSE
    /\ fpos = 0
    /\ chapters_name = None
    /\ file = NoFile
    /\ cur_line = None
    /\ openw = <<>>
    /\ opened = <<>>
    /\ markers = 0
    /\ result = None
    /\ stdout = <<>>
    /\ stdoutClosed = FALSE

Init ==
    /\ run = "first"
    /\ pages = 0
    /\ input_files \in InputChoices
    /\ chapter_definition \in KeywordChoices
    /\ \E sc \in SinkChoices : outtype = sc[1] /\ outfile = sc[2]
    /\ requested = outtype
    /\ fsFiles = << >>
    /\ fsDirs = {}
    /\ FreshLocals

(***************************************************************************)
(* create_file, lines 57-106.                                              *)
(***************************************************************************)
\* ResolveOuttype without the '.htm' test of line 66
ResolveOuttype_NoHtm(ot, of) ==
    IF ot \in {None, <<>>}
    THEN IF of \in {None, <<>>} THEN Text
         ELSE IF EndsWith(of, DotHtml) THEN Html
         ELSE IF EndsWith(of, DotXml) THEN Xml
         ELSE IF EndsWith(of, DotTag) THEN Tag
         ELSE Text
    ELSE ot

\* lines 63-71: the format create_file renders in
ResolveOuttype(ot, of) ==
    IF ot \in {None, <<>>}
    THEN IF of \in {None, <<>>} THEN Text
         ELSE IF EndsWith(of, DotHtm) \/ EndsWith(of, DotHtml) THEN Html
         ELSE IF EndsWith(of, DotXml) THEN Xml
         ELSE IF EndsWith(of, DotTag) THEN Tag
         ELSE Text
    ELSE ot

\* `if outfile:` (lines 65, 73, 103)
Truthy(p) == p \notin {None, <<>>}

\* an exception leaves the function: nothing after the raising line runs;
\* `with` blocks on the stack close their files on the way out
Raised ==
    /\ pc' = "failed"
    /\ failedAt' = pc
    /\ fpOpen' = FALSE
    /\ docOpen' = FALSE

\* lines 63-71
CFResolve ==
    /\ pc = "cf_resolve"
    /\ outtype' = ResolveOuttype(outtype, outfile)
    /\ pc' = "cf_open_sink"
    /\ UNCHANGED <<run, pages, input_files, chapter_definition, requested,
                   outfile, fs, out, failedAt, cfvars, ccvars, result>>

\* lines 72-76: open(outfile, 'w') creates or truncates; else sys.stdout
CFOpenSink ==
    /\ pc = "cf_open_sink"
    /\ IF Truthy(outfile)
       THEN /\ fsFiles' = Put(fsFiles, outfile, <<>>)
            /\ outfp' = "file"
            /\ sinkOpen' = TRUE
       ELSE /\ outfp' = "stdout"
            /\ UNCHANGED <<fsFiles, sinkOpen>>
    /\ pc' = "cf_device"
    /\ UNCHANGED <<run, pages, args, fsDirs, out, failedAt, device,
                   deviceCloses, fi, docOpen, flat, ccvars, result>>

\* lines 78-90: device is bound only for the four known formats
CFDevice ==
    /\ pc = "cf_device"
    /\ device' = IF outtype \in Formats THEN "open" ELSE "unbound"
    /\ pc' = "cf_next_doc"
    /\ UNCHANGED <<run, pages, args, fs, out, failedAt, outfp, sinkOpen,
                   deviceCloses, fi, docOpen, flat, ccvars, result>>

\* lines 92-94: the next input document is opened; an unbound device is a
\* NameError at line 94
CFOpenDoc ==
    /\ pc = "cf_next_doc"
    /\ fi < Len(input_files)
    /\ fi' = fi + 1
    /\ IF device = "unbound"
       THEN Raised
       ELSE /\ docOpen' = TRUE
            /\ pc' = "cf_pages"
            /\ UNCHANGED <<failedAt, fpOpen>>
    /\ UNCHANGED <<run, pages, args, fs, out, outfp, sinkOpen, device,
                   deviceCloses, flat, fname, input_file_path, fpos,
                   chapters_name, file, cur_line, openw, opened, markers,
                   result>>

\* outfp.write(t)
SinkWrite(t) ==
    IF outfp = "file"
    THEN /\ fsFiles' = Put(fsFiles, outfile, fsFiles[outfile] \o t)
         /\ UNCHANGED stdout
    ELSE /\ stdout' = Append(stdout, [kind |-> "write", text |-> t])
         /\ UNCHANGED fsFiles

\* lines 95-100: one page of the open document is rendered into the sink
CFProcessPage ==
    /\ pc = "cf_pages"
    /\ pages < MaxPages
    /\ pages' = pages + 1
    /\ \E t \in PageTexts : SinkWrite(t)
    /\ UNCHANGED <<run, args, fsDirs, stdoutClosed, pc, failedAt, outfp,
                   sinkOpen, device, deviceCloses, fi, docOpen, flat, ccvars,
                   result>>

\* CFCloseDoc with the document of line 93 opened outside a with block
CFCloseDoc_LeavesOpen ==
    /\ pc = "cf_pages"
    /\ pc' = "cf_next_doc"
    /\ UNCHANGED <<run, pages, args, fs, out, failedAt, outfp, sinkOpen,
                   device, deviceCloses, fi, docOpen, flat, ccvars, result>>

\* line 93: the with block ends and closes the document
CFCloseDoc ==
    /\ pc = "cf_pages"
    /\ docOpen' = FALSE
    /\ pc' = "cf_next_doc"
    /\ UNCHANGED <<run, pages, args, fs, out, failedAt, outfp, sinkOpen,
                   device, deviceCloses, fi, flat, ccvars, result>>

\* line 101
CFDeviceClose ==
    /\ pc = "cf_next_doc"
    /\ fi = Len(input_files)
    /\ IF device = "unbound"
       THEN /\ Raised
            /\ UNCHANGED <<device, deviceCloses>>
       ELSE /\ device' = "closed"
            /\ deviceCloses' = deviceCloses + 1
            /\ pc' = "cf_close_sink"
            /\ UNCHANGED <<failedAt, fpOpen, docOpen>>
    /\ UNCHANGED <<run, pages, args, fs, out, outfp, sinkOpen, fi, flat,
                   fname, input_file_path, fpos, chapters_name, file,
                   cur_line, openw, opened, markers, result>>

\* CFCloseSink with line 103's `if outfile:` dropped: whatever the sink is,
\* it is closed
CFCloseSink_ClosesStdout ==
    /\ pc = "cf_close_sink"
    /\ sinkOpen' = FALSE
    /\ stdoutClosed' = IF Truthy(outfile) THEN stdoutClosed ELSE TRUE
    /\ flat' = IF outfp = "file" THEN fsFiles[outfile] ELSE None
    /\ pc' = "cc_dir"
    /\ UNCHANGED <<run, pages, args, fs, stdout, failedAt, outfp, device,
                   deviceCloses, fi, docOpen, ccvars, result>>

\* lines 103-106, and the return into create_chapters (line 151)
CFCloseSink ==
    /\ pc = "cf_close_sink"
    /\ sinkOpen' = IF Truthy(outfile) THEN FALSE ELSE sinkOpen
    /\ flat' = IF outfp = "file" THEN fsFiles[outfile] ELSE None
    /\ pc' = "cc_dir"
    /\ UNCHANGED <<run, pages, args, fs, out, failedAt, outfp, device,
                   deviceCloses, fi, docOpen, ccvars, result>>

(***************************************************************************)
(* create_chapters, lines 148-193.                                         *)
(***************************************************************************)
\* line 168
Tokens(l) == Split(l, " ")

\* IsMarker with the token count of line 173 off by one
IsMarker_TwoTokens(l, kw) ==
    /\ Len(Tokens(l)) = 2
    /\ Lower(Tokens(l)[1]) = Lower(kw)

\* lines 173-174: the line opens a new chapter file
IsMarker(l, kw) ==
    /\ Len(Tokens(l)) = 3
    /\ Lower(Tokens(l)[1]) = Lower(kw)

\* line 158
ChapterDir(f) == Replace(f, DotPdf, UnderChaps)

\* ChapterName without the label token of line 176
ChapterName_NoLabel(l) == Tokens(l)[1] \o DotTxt

\* line 176
ChapterName(l) == Tokens(l)[1] \o Tokens(l)[2] \o DotTxt

\* s without its first element equal to x
RECURSIVE RemoveOne(_, _)
RemoveOne(s, x) ==
    IF s = <<>> THEN <<>>
    ELSE IF Head(s) = x THEN Tail(s)
    ELSE <<Head(s)>> \o RemoveOne(Tail(s), x)

\* open(path, 'w') bound to `file`: the file is created, or truncated
OpenChapter(path) ==
    /\ fsFiles' = Put(fsFiles, path, <<>>)
    /\ file' = [path |-> path, closed |-> FALSE]
    /\ openw' = Append(openw, path)
    /\ opened' = Append(opened, path)

\* file.close()
CloseChapter ==
    /\ file' = [file EXCEPT !.closed = TRUE]
    /\ openw' = IF file.closed THEN openw ELSE RemoveOne(openw, file.path)

\* lines 153-159: the loop leaves fname bound to the last input file (unbound,
\* a NameError at line 158, when there is none); makedirs(exist_ok=True)
\* accepts an existing directory and raises on an existing regular file
CCDir ==
    /\ pc = "cc_dir"
    /\ IF input_files = <<>>
       THEN /\ Raised
            /\ UNCHANGED <<fname, input_file_path, fsDirs>>
       ELSE /\ fname' = input_files[Len(input_files)]
            /\ input_file_path' = ChapterDir(fname')
            /\ IF input_file_path' \in DOMAIN fsFiles
               THEN /\ Raised
                    /\ UNCHANGED fsDirs
               ELSE /\ fsDirs' = fsDirs \cup {input_file_path'}
                    /\ pc' = "cc_open_fp"
                    /\ UNCHANGED <<failedAt, fpOpen, docOpen>>
    /\ UNCHANGED <<run, pages, args, fsFiles, out, outfp, sinkOpen, device,
                   deviceCloses, fi, flat, fpos, chapters_name, file,
                   cur_line, openw, opened, markers, result>>

\* CCOpenFp with the open of line 161 put off until the first readline: the
\* scan is entered whatever the path names
CCOpenFp_Deferred ==
    /\ pc = "cc_open_fp"
    /\ fpOpen' = TRUE
    /\ fpos' = 0
    /\ pc' = "cc_open_preface"
    /\ UNCHANGED <<run, pages, args, fs, out, failedAt, cfvars, fname,
                   input_file_path, chapters_name, file, cur_line, openw,
                   opened, markers, result>>

\* line 161: open(outfile, 'r'); None is a TypeError, a missing file a
\* FileNotFoundError
CCOpenFp ==
    /\ pc = "cc_open_fp"
    /\ IF outfile = None \/ outfile \notin DOMAIN fsFiles
       THEN /\ Raised
            /\ UNCHANGED fpos
       ELSE /\ fpOpen' = TRUE
            /\ fpos' = 0
            /\ pc' = "cc_open_preface"
            /\ UNCHANGED <<failedAt, docOpen>>
    /\ UNCHANGED <<run, pages, args, fs, out, outfp, sinkOpen, device,
                   deviceCloses, fi, flat, fname, input_file_path,
                   chapters_name, file, cur_line, openw, opened, markers,
                   result>>

\* lines 163-164
CCOpenPreface ==
    /\ pc = "cc_open_preface"
    /\ chapters_name' = Preface \o DotTxt
    /\ OpenChapter(PathJoin(input_file_path, chapters_name'))
    /\ pc' = "cc_read"
    /\ UNCHANGED <<run, pages, args, fsDirs, out, failedAt, cfvars, fname,
                   input_file_path, fpOpen, fpos, cur_line, markers, result>>

\* lines 167-174: the next line is read and tested
CCRead ==
    /\ pc = "cc_read"
    /\ cur_line' = ReadLine(fsFiles[outfile], fpos)
    /\ fpos' = fpos + Len(cur_line')
    /\ IF IsMarker(cur_line', chapter_definition)
       THEN /\ markers' = markers + 1
            /\ pc' = "cc_close_old"
       ELSE /\ pc' = "cc_write"
            /\ UNCHANGED markers
    /\ UNCHANGED <<run, pages, args, fs, out, failedAt, cfvars, fname,
                   input_file_path, fpOpen, chapters_name, file, openw,
                   opened, result>>

\* CCCloseOld without the file.close() of line 175
CCCloseOld_NoClose ==
    /\ pc = "cc_close_old"
    /\ pc' = "cc_open_new"
    /\ UNCHANGED <<run, pages, args, fs, out, failedAt, cfvars, fname,
                   input_file_path, fpOpen, fpos, chapters_name, file,
                   cur_line, openw, opened, markers, result>>

\* line 175
CCCloseOld ==
    /\ pc = "cc_close_old"
    /\ CloseChapter
    /\ pc' = "cc_open_new"
    /\ UNCHANGED <<run, pages, args, fs, out, failedAt, cfvars, fname,
                   input_file_path, fpOpen, fpos, chapters_name, cur_line,
                   opened, markers, result>>

\* lines 176-178
CCOpenNew ==
    /\ pc = "cc_open_new"
    /\ chapters_name' = ChapterName(cur_line)
    /\ OpenChapter(PathJoin(input_file_path, chapters_name'))
    /\ pc' = "cc_write"
    /\ UNCHANGED <<run, pages, args, fsDirs, out, failedAt, cfvars, fname,
                   input_file_path, fpOpen, fpos, cur_line, markers, result>>

\* CCWrite with line 181 testing cur_line.strip(): a blank line ends the scan
CCWrite_StopsAtBlank ==
    /\ pc = "cc_write"
    /\ IF file.closed
       THEN /\ Raised
            /\ UNCHANGED fsFiles
       ELSE /\ fsFiles' = Put(fsFiles, file.path, fsFiles[file.path] \o cur_line)
            /\ pc' = IF cur_line \in {<<>>, <<"\n">>}
                     THEN "cc_final_close" ELSE "cc_read"
            /\ UNCHANGED <<failedAt, fpOpen, docOpen>>
    /\ UNCHANGED <<run, pages, args, fsDirs, out, outfp, sinkOpen, device,
                   deviceCloses, fi, flat, fname, input_file_path, fpos,
                   chapters_name, file, cur_line, openw, opened, markers,
                   result>>

\* lines 180-181: the line goes to the active file; a closed file is a
\* ValueError
CCWrite ==
    /\ pc = "cc_write"
    /\ IF file.closed
       THEN /\ Raised
            /\ UNCHANGED fsFiles
       ELSE /\ fsFiles' = Put(fsFiles, file.path, fsFiles[file.path] \o cur_line)
            /\ pc' = IF cur_line = <<>> THEN "cc_final_close" ELSE "cc_read"
            /\ UNCHANGED <<failedAt, fpOpen, docOpen>>
    /\ UNCHANGED <<run, pages, args, fsDirs, out, outfp, sinkOpen, device,
                   deviceCloses, fi, flat, fname, input_file_path, fpos,
                   chapters_name, file, cur_line, openw, opened, markers,
                   result>>

\* CCFinalClose with the os.remove of line 188 moved up to line 184
CCFinalClose_Removes ==
    /\ pc = "cc_final_close"
    /\ CloseChapter
    /\ fpOpen' = FALSE
    /\ fsFiles' = Del(fsFiles, outfile)
    /\ pc' = "cc_cleanup"
    /\ UNCHANGED <<run, pages, args, fsDirs, out, failedAt, cfvars, fname,
                   input_file_path, fpos, chapters_name, cur_line, opened,
                   markers, result>>

\* lines 182-185, and the end of the with block
CCFinalClose ==
    /\ pc = "cc_final_close"
    /\ CloseChapter
    /\ fpOpen' = FALSE
    /\ pc' = "cc_cleanup"
    /\ UNCHANGED <<run, pages, args, fs, out, failedAt, cfvars, fname,
                   input_file_path, fpos, chapters_name, cur_line, opened,
                   markers, result>>

\* line 189
Confirmation(dir) ==
    [kind |-> "print",
     text |-> <<"Files were created successfully in ", dir>>]

\* lines 187-193: the cleanup, taken as one step (os.remove is the call of
\* it that can raise; the print is taken to succeed)
CCCleanup ==
    /\ pc = "cc_cleanup"
    /\ IF outfile # None /\ outfile \in DOMAIN fsFiles
       THEN /\ fsFiles' = Del(fsFiles, outfile)
            /\ stdout' = Append(stdout, Confirmation(input_file_path))
       ELSE UNCHANGED <<fsFiles, stdout>>
    /\ result' = True
    /\ pc' = "done"
    /\ UNCHANGED <<run, pages, args, fsDirs, stdoutClosed, failedAt, cfvars,
                   ccvars>>

(***************************************************************************)
(* The environment.                                                        *)
(***************************************************************************)
\* the positions whose line calls into the operating system or the engine
Fallible ==
    {"cf_open_sink", "cf_device", "cf_next_doc", "cf_pages", "cf_close_sink",
     "cc_dir", "cc_open_fp", "cc_open_preface", "cc_read", "cc_close_old",
     "cc_open_new", "cc_write", "cc_final_close", "cc_cleanup"}

\* OSError with create_file undoing its output when a document fails: the
\* sink is emptied before the exception leaves
OSError_RollsBack ==
    /\ pc \in Fallible
    /\ Raised
    /\ IF pc \in {"cc_close_old", "cc_final_close"}
       THEN CloseChapter
       ELSE UNCHANGED <<file, openw>>
    /\ sinkOpen' = IF pc = "cf_close_sink" THEN FALSE ELSE sinkOpen
    /\ IF pc \in {"cf_next_doc", "cf_pages"}
       THEN IF outfp = "file"
            THEN /\ fsFiles' = Put(fsFiles, outfile, <<>>)
                 /\ UNCHANGED stdout
            ELSE /\ stdout' = <<>>
                 /\ UNCHANGED fsFiles
       ELSE UNCHANGED <<fsFiles, stdout>>
    /\ UNCHANGED <<run, pages, args, fsDirs, stdoutClosed, outfp, device,
                   deviceCloses, fi, flat, fname, input_file_path, fpos,
                   chapters_name, cur_line, opened, markers, result>>

\* the call at the current position raises (permission, disk full, corrupt
\* document, undecodable byte); nothing is caught anywhere, so the exception
\* leaves create_chapters. A close() that raises has still closed the file.
OSError ==
    /\ pc \in Fallible
    /\ Raised
    /\ IF pc \in {"cc_close_old", "cc_final_close"}
       THEN CloseChapter
       ELSE UNCHANGED <<file, openw>>
    /\ sinkOpen' = IF pc = "cf_close_sink" THEN FALSE ELSE sinkOpen
    /\ UNCHANGED <<run, pages, args, fs, out, outfp, device, deviceCloses,
                   fi, flat, fname, input_file_path, fpos, chapters_name,
                   cur_line, opened, markers, result>>

\* the program is invoked again for the same documents and output path, with
\* any keyword, on the filesystem the last run left
NewRun ==
    /\ pc \in {"done", "failed"}
    /\ run = "first"
    /\ run' = "again"
    /\ chapter_definition' \in KeywordChoices
    /\ \E sc \in SinkChoices : outtype' = sc[1] /\ sc[2] = outfile
    /\ requested' = outtype'
    /\ pc' = "cf_resolve"
    /\ failedAt' = "none"
    /\ outfp' = None
    /\ sinkOpen' = FALSE
    /\ device' = "unbound"
    /\ deviceCloses' = 0
    /\ fi' = 0
    /\ docOpen' = FALSE
    /\ flat' = None
    /\ fname' = None
    /\ input_file_path' = None
    /\ fpOpen' = FALSE
    /\ fpos' = 0
    /\ chapters_name' = None
    /\ file' = NoFile
    /\ cur_line' = None
    /\ openw' = <<>>
    /\ opened' = <<>>
    /\ markers' = 0
    /\ result' = None
    /\ stdout' = <<>>
    /\ stdoutClosed' = FALSE
    /\ UNCHANGED <<pages, input_files, outfile, fs>>

Next ==
    \/ CFResolve
    \/ CFOpenSink
    \/ CFDevice
    \/ CFOpenDoc
    \/ CFProcessPage
    \/ CFCloseDoc
    \/ CFDeviceClose
    \/ CFCloseSink
    \/ CCDir
    \/ CCOpenFp
    \/ CCOpenPreface
    \/ CCRead
    \/ CCCloseOld
    \/ CCOpenNew
    \/ CCWrite
    \/ CCFinalClose
    \/ CCCleanup
    \/ OSError
    \/ NewRun

Spec == Init /\ [][Next]_vars

(***************************************************************************)
(* One invocation, with the scan of lines 163-193 always continuing: the    *)
(* interpreter runs the next statement of the loop unless an exception     *)
(* leaves it. Whether a call fails stays up to the environment.            *)
(***************************************************************************)
\* a step of the invocation, or a failure of the call it is at
NextInvocation ==
    \/ CFResolve
    \/ CFOpenSink
    \/ CFDevice
    \/ CFOpenDoc
    \/ CFProcessPage
    \/ CFCloseDoc
    \/ CFDeviceClose
    \/ CFCloseSink
    \/ CCDir
    \/ CCOpenFp
    \/ CCOpenPreface
    \/ CCRead
    \/ CCCloseOld
    \/ CCOpenNew
    \/ CCWrite
    \/ CCFinalClose
    \/ CCCleanup
    \/ OSError

\* a statement of lines 163-193 runs
ScanStep ==
    \/ CCOpenPreface
    \/ CCRead
    \/ CCCloseOld
    \/ CCOpenNew
    \/ CCWrite
    \/ CCFinalClose
    \/ CCCleanup

SpecLive == Init /\ [][NextInvocation]_vars /\ WF_vars(ScanStep)

(***************************************************************************)
(* The format resolution on its own: create_file called with any requested *)
(* format and any output path.                                             *)
(***************************************************************************)
\* the outtype argument: None, '', one of main's --text-type choices, or (in
\* a direct call) a string that names no renderer
RequestedChoices == {None, <<>>, <<"p", "d", "f">>} \cup Formats

\* the outfile argument
OutfileChoices ==
    { None,
      <<>>,
      ChaptersOut,
      <<"o">> \o DotHtm,
      <<"o">> \o DotHtml,
      <<"o">> \o DotXml,
      <<"o">> \o DotTag,
      <<"o">> \o DotTxt,
      DotHtml,
      <<"d", ".", "x", "m", "l", "/", "o">>,
      <<"o">> \o DotHtml \o <<".", "b", "a", "k">>,
      <<"o", ".", "H", "T", "M", "L">>,
      <<"o", "h", "t", "m", "l">>,
      <<"o">> \o DotTag \o DotXml,
      <<"o", ".", "x", "m">> }

InitFormat ==
    /\ run = "first"
    /\ pages = 0
    /\ input_files = <<DocA>>
    /\ chapter_definition = <<"C", "H">>
    /\ requested \in RequestedChoices
    /\ outtype = requested
    /\ outfile \in OutfileChoices
    /\ fsFiles = << >>
    /\ fsDirs = {}
    /\ FreshLocals

NextFormat == CFResolve

SpecFormat == InitFormat /\ [][NextFormat]_vars

(***************************************************************************)
(* Properties.                                                             *)
(***************************************************************************)
\* the last n characters of a path (nothing for None or a shorter path)
Suffix(path, n) ==
    IF path = None \/ Len(path) < n THEN <<>>
    ELSE SubSeq(path, Len(path) - n + 1, Len(path))

\* the format table of the specification's OutputSinkResolver
ClaimedFormat(req, path) ==
    IF req \notin {None, <<>>} THEN req
    ELSE IF path \in {None, <<>>} THEN Text
    ELSE IF Suffix(path, 4) = DotHtm \/ Suffix(path, 5) = DotHtml THEN Html
    ELSE IF Suffix(path, 4) = DotXml THEN Xml
    ELSE IF Suffix(path, 4) = DotTag THEN Tag
    ELSE Text

\* the confirmation message has been printed by this invocation
Printed == \E i \in 1..Len(stdout) : stdout[i].kind = "print"

\* the positions of create_chapters after create_file has returned
SegmentationPcs ==
    {"cc_dir", "cc_open_fp", "cc_open_preface", "cc_read", "cc_close_old",
     "cc_open_new", "cc_write", "cc_final_close", "cc_cleanup"}

\* C4: at every instant of the scan, failures included, at most one chapter
\* file is open for writing, and none is open at the instant the next one is
\* opened (the active file was closed first).
C4_AtMostOneOpen ==
    /\ Len(openw) <= 1
    /\ pc = "cc_open_new" => openw = <<>>
    /\ (pc = "failed" /\ failedAt = "cc_open_new") => openw = <<>>

\* C4 witness: after a rollover a write fails with exactly one file open
C4_Witness ==
    /\ pc = "failed"
    /\ failedAt = "cc_write"
    /\ Len(opened) >= 2
    /\ Len(openw) = 1

\* C6: once resolved, the format is the requested one when one was given,
\* whatever the output path; otherwise html for .htm/.html, xml for .xml,
\* tag for .tag, and text for any other path or none; inferred or requested
\* among the four, it is one of the four formats.
C6_FormatResolution ==
    pc # "cf_resolve" =>
        /\ outtype = ClaimedFormat(requested, outfile)
        /\ requested \in {None, <<>>} \cup Formats => outtype \in Formats

\* C6 witness: no format requested, the path ends in .htm, html is chosen
C6_Witness ==
    /\ pc = "cf_open_sink"
    /\ requested = None
    /\ outfile = <<"o">> \o DotHtm
    /\ outtype = Html

RECURSIVE LinesOf(_)
LinesOf(text) ==
    IF text = <<>> THEN <<>>
    ELSE <<ReadLine(text, 0)>>
             \o LinesOf(Drop(text, Len(ReadLine(text, 0)) + 1))

\* the concatenation of a sequence of strings
RECURSIVE Concat(_)
Concat(ss) == IF ss = <<>> THEN <<>> ELSE Head(ss) \o Concat(Tail(ss))

Whitespace == {" ", "\t", "\n"}

\* the whitespace-separated tokens of a line: maximal runs of non-whitespace
RECURSIVE WsFrom(_, _, _, _)
WsFrom(s, i, cur, acc) ==
    IF i > Len(s) THEN (IF cur = <<>> THEN acc ELSE Append(acc, cur))
    ELSE IF s[i] \in Whitespace
         THEN WsFrom(s, i + 1, <<>>, IF cur = <<>> THEN acc ELSE Append(acc, cur))
         ELSE WsFrom(s, i + 1, Append(cur, s[i]), acc)

WsTokens(l) == WsFrom(l, 1, <<>>, <<>>)

\* the first whitespace-separated token of the line is the keyword
KeywordFirst(l, kw) ==
    /\ Len(WsTokens(l)) >= 1
    /\ Lower(WsTokens(l)[1]) = Lower(kw)

\* a heading as the specification writes it: '<Keyword> <label>\n'
PlainHeading(l, kw) ==
    /\ Len(WsTokens(l)) = 2
    /\ Lower(WsTokens(l)[1]) = Lower(kw)
    /\ l = WsTokens(l)[1] \o <<" ">> \o WsTokens(l)[2] \o <<"\n">>

PlainHeadingName(l) == WsTokens(l)[1] \o WsTokens(l)[2] \o DotTxt

\* a heading as line 173 takes it: exactly three pieces between single
\* spaces, the first being the keyword ('<Keyword> <label> \n')
SpacedHeading(l, kw) ==
    /\ Len(Split(l, " ")) = 3
    /\ Lower(Split(l, " ")[1]) = Lower(kw)

SpacedHeadingName(l) == Split(l, " ")[1] \o Split(l, " ")[2] \o DotTxt

\* the content of a file, None when there is no such file
Content(path) == IF path \in DOMAIN fsFiles THEN fsFiles[path] ELSE None

\* the regular files directly inside a directory
DirFiles(dir) ==
    { p \in DOMAIN fsFiles :
        /\ Len(p) > Len(dir) + 1
        /\ SubSeq(p, 1, Len(dir) + 1) = dir \o <<"/">>
        /\ \A i \in (Len(dir) + 2)..Len(p) : p[i] # "/" }

Range(f) == { f[i] : i \in DOMAIN f }

\* the first heading after line i, or one past the last line
NextHeading(idx, n, i) ==
    IF \E j \in idx : j > i
    THEN CHOOSE j \in idx : j > i /\ \A k \in idx : k > i => j <= k
    ELSE n + 1

\* the index set idx, ascending
RECURSIVE Ascending(_)
Ascending(idx) ==
    IF idx = {} THEN <<>>
    ELSE LET m == CHOOSE j \in idx : \A k \in idx : j <= k
         IN  <<m>> \o Ascending(idx \ {m})

\* the chapter directory holds the segmentation of lines L whose headings
\* are the lines at idx, named by name: preface.txt is the lines before the
\* first heading, each heading's file is the heading and the lines up to the
\* next heading; these files were opened in stream order and no others
Segmented(L, idx, name) ==
    /\ Content(PathJoin(input_file_path, Preface \o DotTxt))
          = Concat(SubSeq(L, 1, NextHeading(idx, Len(L), 0) - 1))
    /\ \A i \in idx :
          Content(PathJoin(input_file_path, name[i]))
             = Concat(SubSeq(L, i, NextHeading(idx, Len(L), i) - 1))
    /\ opened = <<PathJoin(input_file_path, Preface \o DotTxt)>>
                   \o [k \in 1..Cardinality(idx) |->
                         PathJoin(input_file_path, name[Ascending(idx)[k]])]

\* the names are pairwise distinct and none is preface.txt
DistinctNames(idx, name) ==
    /\ \A i \in idx : name[i] # Preface \o DotTxt
    /\ \A i, j \in idx : i # j => name[i] # name[j]

\* C1 as claimed: headings are the lines '<Keyword> <label>\n'; every other
\* line does not start with the keyword.
C1_AsClaimed ==
    LET L   == LinesOf(flat)
        idx == { i \in 1..Len(L) : PlainHeading(L[i], chapter_definition) }
        nm  == [i \in idx |-> PlainHeadingName(L[i])]
    IN  (/\ pc = "done"
         /\ \A i \in (1..Len(L)) \ idx : ~KeywordFirst(L[i], chapter_definition)
         /\ DistinctNames(idx, nm))
        => Segmented(L, idx, nm)

\* C1, amended: headings are the lines that split on single spaces into
\* exactly three pieces whose first is the keyword, case-insensitively
\* ('<Keyword> <label> \n'); when their names <piece 1><piece 2>.txt are
\* pairwise distinct and not preface.txt, a successful run has written
\* preface.txt with the lines before the first heading and, per heading, a
\* file with the heading and the lines up to the next heading, has opened
\* them in stream order, and has opened no other file.
C1_Segmentation ==
    LET L   == LinesOf(flat)
        idx == { i \in 1..Len(L) : SpacedHeading(L[i], chapter_definition) }
        nm  == [i \in idx |-> SpacedHeadingName(L[i])]
    IN  (pc = "done" /\ DistinctNames(idx, nm)) => Segmented(L, idx, nm)

\* C1 witness: a preface line, then a heading and its body line
C1_Witness ==
    /\ pc = "done"
    /\ Len(opened) = 2
    /\ opened[1] # opened[2]
    /\ Len(LinesOf(flat)) = 3
    /\ Len(LinesOf(Content(opened[1]))) = 1
    /\ Len(LinesOf(Content(opened[2]))) = 2

\* the line has two or four whitespace-separated tokens, the first being
\* the keyword
TwoOrFourTokens(l, kw) ==
    /\ Len(WsTokens(l)) \in {2, 4}
    /\ Lower(WsTokens(l)[1]) = Lower(kw)

\* the line splits on single spaces into two or four pieces, the first being
\* the keyword
TwoOrFourPieces(l, kw) ==
    /\ Len(Split(l, " ")) \in {2, 4}
    /\ Lower(Split(l, " ")[1]) = Lower(kw)

\* C2 as claimed: a line with two or four whitespace-separated tokens whose
\* first token is the keyword never closes the active file nor opens one.
C2_AsClaimed ==
    pc \in {"cc_close_old", "cc_open_new"}
        => ~TwoOrFourTokens(cur_line, chapter_definition)

\* C2, amended: a line that splits on single spaces into two or four pieces
\* whose first piece is the keyword never closes the active file nor opens
\* one: reading it leaves the active file and the set of open files as they
\* were, and the write that follows appends it to that same file.
C2_NoBoundaryOnTwoOrFourPieces ==
    [][ /\ (pc = "cc_read" /\ pc' # "failed"
              /\ TwoOrFourPieces(cur_line', chapter_definition))
           => (/\ pc' = "cc_write"
               /\ file' = file
               /\ openw' = openw
               /\ opened' = opened
               /\ fsFiles' = fsFiles)
        /\ (pc = "cc_write" /\ pc' # "failed"
              /\ TwoOrFourPieces(cur_line, chapter_definition))
           => (/\ file' = file
               /\ openw' = <<file.path>>
               /\ opened' = opened
               /\ fsFiles' = Put(fsFiles, file.path,
                                 fsFiles[file.path] \o cur_line)) ]_vars

\* C2 witness: a four-piece line starting with the keyword has been appended
\* to the chapter file that was active when it was read
C2_Witness ==
    /\ pc = "cc_read"
    /\ TwoOrFourPieces(cur_line, chapter_definition)
    /\ Len(Split(cur_line, " ")) = 4
    /\ Len(opened) = 2
    /\ openw = <<opened[2]>>
    /\ EndsWith(Content(opened[2]), cur_line)

\* C3 as claimed: whenever create_chapters has returned True, the
\* intermediate file is gone, the chapter directory exists, and it holds
\* exactly one file per detected boundary marker plus preface.txt.
C3_AsClaimed ==
    (pc = "done" /\ result = True) =>
        /\ outfile \notin DOMAIN fsFiles
        /\ input_file_path \in fsDirs
        /\ Cardinality(DirFiles(input_file_path)) = markers + 1

\* C5 as claimed: no chapter file is opened a second time within one scan
\* (every file but the last opened is closed, so a second open of its name
\* reopens, and truncates, a closed file).
C5_AsClaimed ==
    \A i, j \in 1..Len(opened) : i # j => opened[i] # opened[j]

\* C7 as claimed: after a successful run over a chapter directory that a
\* prior run left, the directory holds only files the new run produced.
C7_AsClaimed ==
    (run = "again" /\ pc = "done") =>
        DirFiles(input_file_path) \subseteq Range(opened)

\* <document-stem>_chapters beside the document
StemChapters(doc) ==
    IF EndsWith(doc, DotPdf)
    THEN SubSeq(doc, 1, Len(doc) - Len(DotPdf)) \o UnderChaps
    ELSE doc \o UnderChaps

\* C9 as claimed: once segmentation begins, every input document has its
\* own directory <document-stem>_chapters beside it.
C9_AsClaimed ==
    pc \in {"cc_open_fp", "cc_open_preface", "cc_read", "cc_close_old",
            "cc_open_new", "cc_write", "cc_final_close", "cc_cleanup", "done"}
        => \A i \in 1..Len(input_files) : StemChapters(input_files[i]) \in fsDirs

\* the files of `opened`, each once, in the order they were first created
RECURSIVE Created(_, _)
Created(ps, seen) ==
    IF ps = <<>> THEN <<>>
    ELSE IF Head(ps) \in seen THEN Created(Tail(ps), seen)
    ELSE <<Head(ps)>> \o Created(Tail(ps), seen \cup {Head(ps)})

\* C10 as claimed: after a successful segmentation the chapter files,
\* concatenated in the order they were created, are the flat text.
C10_AsClaimed ==
    pc = "done" =>
        Concat([k \in 1..Len(Created(opened, {})) |->
                   Content(Created(opened, {})[k])]) = flat

\* the positions of create_file
ConversionPcs ==
    {"cf_resolve", "cf_open_sink", "cf_device", "cf_next_doc", "cf_pages",
     "cf_close_sink"}

\* every input document has been processed and closed, and the renderer
\* finalized
ConversionComplete ==
    /\ fi = Len(input_files)
    /\ ~docOpen
    /\ device = "closed"

\* create_chapters has acted after its call of create_file: makedirs was
\* called, the intermediate file opened or read, or a chapter file opened
SegmentationStarted ==
    \/ input_file_path # None
    \/ fpOpen
    \/ fpos > 0
    \/ cur_line # None
    \/ opened # <<>>

\* C11 as the specification states it: segmentation acts only once the
\* output sink, whichever it is, has been closed.
C11_AsClaimed ==
    SegmentationStarted =>
        IF Truthy(outfile) THEN ~sinkOpen ELSE stdoutClosed

\* C11: no input document is open at the instant the next one is opened, and
\* the open document is one of the inputs; create_chapters creates the
\* directory, opens or reads the intermediate file and opens chapter files
\* only once every input document has been processed and closed, the
\* renderer finalized and the sink, when it is a file, closed; a failure
\* inside create_file leaves segmentation not started.
C11_PhaseOrdering ==
    /\ pc = "cf_next_doc" => ~docOpen
    /\ docOpen => pc = "cf_pages" /\ fi \in 1..Len(input_files)
    /\ (SegmentationStarted \/ pc \in SegmentationPcs) =>
          /\ ConversionComplete
          /\ Truthy(outfile) => ~sinkOpen
    /\ (pc = "failed" /\ failedAt \in ConversionPcs) => ~SegmentationStarted

\* C11 witness: two documents were converted into a file and the scan has
\* read a line of it
C11_Witness ==
    /\ pc = "cc_write"
    /\ Len(input_files) = 2
    /\ fi = 2
    /\ Truthy(outfile)
    /\ fpos > 0
    /\ input_file_path \in fsDirs

\* create_file has returned to its caller (line 106)
Returned == pc \in SegmentationPcs \/ pc = "done" \/ SegmentationStarted

\* C12: the renderer is closed once and no more, and only when every input
\* document has been processed and closed; at the instant the sink is to be
\* closed the renderer is closed already and a file sink is still open; once
\* create_file has returned the renderer has been closed exactly once and a
\* file sink is closed; standard output is never closed.
C12_SinkLifecycle ==
    /\ deviceCloses <= 1
    /\ deviceCloses = 1 <=> device = "closed"
    /\ device = "closed" => fi = Len(input_files) /\ ~docOpen
    /\ pc = "cf_close_sink" =>
          /\ device = "closed"
          /\ Truthy(outfile) => sinkOpen
    /\ Returned =>
          /\ deviceCloses = 1
          /\ Truthy(outfile) => ~sinkOpen
    /\ ~stdoutClosed

\* C12 witness: two documents were rendered to standard output and
\* create_file has returned
C12_Witness ==
    /\ pc = "cc_dir"
    /\ ~Truthy(outfile)
    /\ Len(input_files) = 2
    /\ Len(stdout) >= 2
    /\ deviceCloses = 1
    /\ ~stdoutClosed

\* the positions of lines 92-100: a document is being opened, or its pages
\* read
DocumentPcs == {"cf_next_doc", "cf_pages"}

\* C13: a step in which opening or reading an input document fails ends the
\* invocation in failure with nothing returned, leaves no document open and
\* leaves the sink (the output file, or standard output) holding exactly what
\* it held; a failure is never passed over; and from the failed invocation
\* the only step is a new invocation, which finds the files as they were
\* left: no later document is opened and nothing is rolled back.
C13_DocumentFailureIsFatal ==
    [][ /\ (pc \in DocumentPcs /\ pc' = "failed") =>
              /\ failedAt' = pc
              /\ result' = None
              /\ ~docOpen'
              /\ fi' = fi
              /\ fsFiles' = fsFiles
              /\ stdout' = stdout
        /\ failedAt' # "none" => pc' = "failed" /\ result' = None
        /\ pc = "failed" => run' # run /\ fsFiles' = fsFiles
      ]_vars

\* C13 witness: the second of two documents could not be opened; what the
\* first one produced is in the output file
C13_Witness ==
    /\ pc = "failed"
    /\ failedAt = "cf_next_doc"
    /\ Len(input_files) = 2
    /\ fi = 1
    /\ Truthy(outfile)
    /\ Content(outfile) \notin {None, <<>>}
    /\ result = None

\* there is no intermediate file to segment: no path, or no file at the path
MissingIntermediate == outfile = None \/ outfile \notin DOMAIN fsFiles

\* the positions of lines 163-185, inside the with block of line 161
ScanPcs ==
    {"cc_open_preface", "cc_read", "cc_close_old", "cc_open_new", "cc_write",
     "cc_final_close"}

\* C14: the scan is entered only with the intermediate file in place; an
\* invocation that found it missing at line 161 has failed there, or is about
\* to, with nothing returned, no chapter file opened (a first invocation
\* leaves the chapter directory empty) and no confirmation printed; and an
\* invocation with no intermediate path never returns True.
C14_MissingIntermediateFails ==
    /\ pc \in ScanPcs => ~MissingIntermediate
    /\ ( /\ MissingIntermediate
         /\ \/ pc = "cc_open_fp"
            \/ pc = "failed" /\ failedAt = "cc_open_fp" ) =>
          /\ result = None
          /\ opened = <<>>
          /\ ~Printed
          /\ run = "first" => DirFiles(input_file_path) = {}
    /\ outfile = None => pc # "done" /\ result = None /\ opened = <<>>

\* C14 witness: no intermediate path was given, the pages went to standard
\* output, the directory was made and line 161 raised
C14_Witness ==
    /\ pc = "failed"
    /\ failedAt = "cc_open_fp"
    /\ outfile = None
    /\ stdout # <<>>
    /\ input_file_path \in fsDirs
    /\ opened = <<>>
    /\ result = None

\* the stream holds a blank line that is not its last line
BlankLineInside ==
    /\ flat # None
    /\ \E i \in 1..(Len(flat) - 1) :
          /\ flat[i] = "\n"
          /\ i = 1 \/ flat[i - 1] = "\n"

\* the scan's position is the start of the stream, its end, or just after a
\* newline; the line in hand is the text that ends at the position and
\* holds no newline before its last character; it is empty only at the end
\* of the stream
AtLineBoundary ==
    cur_line # None =>
        /\ flat # None
        /\ fpos \in 0..Len(flat)
        /\ fpos = 0 \/ fpos = Len(flat) \/ flat[fpos] = "\n"
        /\ cur_line = SubSeq(flat, fpos - Len(cur_line) + 1, fpos)
        /\ \A i \in 1..(Len(cur_line) - 1) : cur_line[i] # "\n"
        /\ cur_line = <<>> => fpos = Len(flat)

\* a readline of line 167 takes the text from where the last one ended
ReadsOnward ==
    (pc = "cc_read" /\ pc' \in {"cc_write", "cc_close_old"}) =>
        /\ fpos' = fpos + Len(cur_line')
        /\ fpos' > fpos \/ fpos = Len(flat)
        /\ flat' = flat

\* the scan is over: the stream was read to its end, the last read was the
\* empty one, and no chapter file and no intermediate handle is open
ScanOver ==
    /\ cur_line = <<>>
    /\ fpos = Len(flat)
    /\ openw = <<>>
    /\ file.closed
    /\ ~fpOpen

\* C15: each readline takes the text from where the last one ended, one whole
\* line at a time, so every line of the stream is read once; the scan ends
\* only on the empty read at the end of the stream, never on a blank line
\* before it; it then closes the active chapter file, and the invocation is
\* done with the whole stream read and no chapter file open; and every scan,
\* over whatever stream create_file produced, comes to that end unless an
\* exception ends the invocation first.
C15_ScanTerminates ==
    /\ []AtLineBoundary
    /\ [][ReadsOnward]_vars
    /\ [](pc = "cc_final_close" => cur_line = <<>> /\ fpos = Len(flat))
    /\ [](pc \in {"cc_cleanup", "done"} => ScanOver)
    /\ (pc \in ScanPcs ~> (pc = "done" \/ pc = "failed"))

\* C15 witness: a stream with a blank line inside and a heading after it was
\* scanned to its end
C15_Witness ==
    /\ pc = "done"
    /\ BlankLineInside
    /\ markers >= 1
    /\ Len(opened) >= 2
    /\ ScanOver

====
